---- MODULE Spec2Model ----
(***************************************************************************)
(* The example fact services of rulio (examples/add.py, weatherfs.py,      *)
(* stockfs.py, imdbfs.py): one BaseHTTPServer.HTTPServer per program, a    *)
(* handler whose do_POST validates a JSON pattern, calls one backend and   *)
(* writes one response.                                                    *)
(*                                                                         *)
(* Text is modelled as a sequence of one-character strings, so that        *)
(* startswith and len are computed.  A Python value carries its type tag.  *)
(* A dict is the sequence of its <<key, value>> entries in iteration order.*)
(***************************************************************************)
EXTENDS Integers, Sequences, FiniteSets, TLC

\* Bounds of the model.
MaxRequests == 3
MaxProps == 2
MaxInt == 1

Requests == 1..MaxRequests

VARIABLES
    service,          \* which of the four programs this process runs
    legalProperties,  \* the module-level set of stockfs.py / imdbfs.py
    pc,               \* per request: idle, queued, fetching, responded, closed
    req,              \* per request: what the handler read from the socket
    loc,              \* per request: the handler's locals across the backend call
    calls,            \* per request: number of backend invocations
    data,             \* per request: what the backend returned
    wire,             \* per request: what the handler wrote to the socket
    answered          \* the last closed exchange that was answered from backend data

vars == <<service, legalProperties, pc, req, loc, calls, data, wire, answered>>

----------------------------------------------------------------------------
(* Python values and text *)

PyStr(s) == [t |-> "str", s |-> s, n |-> 0]
PyInt(n) == [t |-> "int", s |-> <<>>, n |-> n]
\* a float with one decimal: PyFloat(15) is 1.5
PyFloat(tenths) == [t |-> "float", s |-> <<>>, n |-> tenths]
NoVal == [t |-> "none", s |-> <<>>, n |-> 0]

DigitChar(d) == <<"0", "1", "2", "3", "4", "5", "6", "7", "8", "9">>[d + 1]

RECURSIVE Decimal(_)
Decimal(n) == IF n < 10 THEN <<DigitChar(n)>>
              ELSE Decimal(n \div 10) \o <<DigitChar(n % 10)>>

\* str(v) of add.py:71 and weatherfs.py:86
str(v) ==
    CASE v.t = "str" -> v.s
      [] v.t = "int" -> Decimal(v.n)
      [] OTHER -> Decimal(v.n \div 10) \o <<".">> \o Decimal(v.n % 10)

startswith(s, c) == Len(s) > 0 /\ s[1] = c

\* dict operations on a sequence of entries
Has(m, k) == \E i \in 1..Len(m) : m[i][1] = k
Get(m, k) == m[CHOOSE i \in 1..Len(m) : m[i][1] = k][2]
Del(m, k) == SelectSeq(m, LAMBDA e : e[1] # k)
Keys(m) == {m[i][1] : i \in 1..Len(m)}

----------------------------------------------------------------------------
(* What is written to the socket *)

Msg(what, key, val) == [what |-> what, key |-> key, val |-> val]
NoMsg == Msg("", "", NoVal)
\* str(broke) of an exception
Broke(exc, key) == Msg(exc, key, NoVal)

\* JSON number text: whole part and the digits after the decimal point
JNum(whole, frac) == [t |-> "jnum", s |-> <<>>, n |-> whole, frac |-> frac]
JStr(s) == [t |-> "jstr", s |-> s, n |-> 0, frac |-> <<>>]

ErrorEnvelope(msg) == [kind |-> "Error", msg |-> msg, bindingss |-> <<>>]
PlainText(msg) == [kind |-> "text", msg |-> msg, bindingss |-> <<>>]
FoundEnvelope(bs) == [kind |-> "Found", msg |-> NoMsg, bindingss |-> bs]
NoBody == [kind |-> "none", msg |-> NoMsg, bindingss |-> <<>>]

send_response == [ev |-> "send_response", ctype |-> "", body |-> NoBody]
send_header(ctype) == [ev |-> "send_header", ctype |-> ctype, body |-> NoBody]
end_headers == [ev |-> "end_headers", ctype |-> "", body |-> NoBody]
write(body) == [ev |-> "write", ctype |-> "", body |-> body]

success_headers == <<send_response, send_header("application/json"), end_headers>>

\* add.py: protest writes '{"Error":"%s"}' % message
protest_add(message) ==
    <<send_response, send_header("text/plain"), end_headers,
      write(ErrorEnvelope(message))>>

\* stockfs.py, weatherfs.py, imdbfs.py: protest writes the bare message
protest(message) ==
    <<send_response, send_header("text/plain"), end_headers,
      write(PlainText(message))>>

\* '%f' % v: six digits after the point; TypeError for a value that is no number
FormatF(v) ==
    CASE v.t = "int" -> JNum(v.n, <<0, 0, 0, 0, 0, 0>>)
      [] v.t = "float" -> JNum(v.n \div 10, <<v.n % 10, 0, 0, 0, 0, 0>>)
      [] OTHER -> NoVal

\* json.dumps of one value: repr of a float, the digits of an int, a string
dumps(v) ==
    CASE v.t = "int" -> JNum(v.n, <<>>)
      [] v.t = "float" -> JNum(v.n \div 10, <<v.n % 10>>)
      [] OTHER -> JStr(v.s)

----------------------------------------------------------------------------
(* How far a block of handler code got: it wrote `wire` and then returned,  *)
(* raised `exc`, or fell through to the next statement (go).                *)

Returned(w) == [wire |-> w, exc |-> NoMsg, go |-> FALSE]
Raised(w, e) == [wire |-> w, exc |-> e, go |-> FALSE]
FallThrough == [wire |-> <<>>, exc |-> NoMsg, go |-> TRUE]

\* add.py:91-92: except Exception as broke: protest(self, str(broke))
except_add(out) ==
    IF out.exc # NoMsg THEN out.wire \o protest_add(out.exc) ELSE out.wire

\* stockfs.py:133-135 (weatherfs.py:108-109 and imdbfs.py:122-123 are the same)
except_Exception(out) ==
    IF out.exc # NoMsg THEN out.wire \o protest(out.exc) ELSE out.wire

----------------------------------------------------------------------------
(* add.py *)

\* x + y of add.py:82
plus(x, y) ==
    CASE x.t = "int" /\ y.t = "int" -> PyInt(x.n + y.n)
      [] x.t = "str" /\ y.t = "str" -> PyStr(x.s \o y.s)
      [] OTHER -> NoVal

\* check_z without the test of len(z)
check_z_nolen(m) ==
    IF ~Has(m, "z")
    THEN Returned(protest_add(Msg("Need z (variable).", "z", NoVal)))
    ELSE IF ~startswith(str(Get(m, "z")), "?")
    THEN Returned(protest_add(Msg("z must be a variable.", "z", NoVal)))
    ELSE FallThrough

\* add.py:68-80: the checks of z
check_z(m) ==
    IF ~Has(m, "z")
    THEN Returned(protest_add(Msg("Need z (variable).", "z", NoVal)))
    ELSE LET z == str(Get(m, "z")) IN
         IF ~startswith(z, "?")
         THEN Returned(protest_add(Msg("z must be a variable.", "z", NoVal)))
         ELSE IF Len(z) < 2
         THEN Returned(protest_add(Msg("Need an named variable for z.", "z", NoVal)))
         ELSE FallThrough

\* add.py:49-80: everything in the try block before got = x + y
validate_add(rq) ==
    IF ~rq.json THEN Raised(<<>>, Broke("ValueError", ""))
    ELSE LET m == rq.m IN
         IF ~Has(m, "x")
         THEN Returned(protest_add(Msg("Need x (constant: number).", "x", NoVal)))
         ELSE IF ~Has(m, "y")
         THEN Returned(protest_add(Msg("Need y (constant: number).", "y", NoVal)))
         ELSE check_z(m)

\* add.py:82-89: got = x + y, the headers, the formatted body
respond_add(m) ==
    LET got == plus(Get(m, "x"), Get(m, "y"))
        z == str(Get(m, "z"))
    IN  IF got = NoVal THEN Raised(<<>>, Broke("TypeError", "+"))
        ELSE IF FormatF(got) = NoVal
        THEN Raised(success_headers, Broke("TypeError", "%f"))
        ELSE Returned(success_headers
                      \o <<write(FoundEnvelope(<<(z :> FormatF(got))>>))>>)

----------------------------------------------------------------------------
(* stockfs.py and imdbfs.py *)

StockLegalProperties == {"bid", "ask", "change", "percentChange", "lastTradeSize"}

ImdbLegalProperties ==
    {"Actors", "Awards", "Country", "Director", "Genre", "Language",
     "Metascore", "Plot", "Poster", "Rated", "Released", "Response",
     "Runtime", "Title", "Type", "Writer", "Year", "imdbID", "imdbRating",
     "imdbVotes"}

RECURSIVE check_properties(_, _)
\* stockfs.py:96-106 (imdbfs.py:85-95 is the same loop): for p in m, from entry i
check_properties(m, i) ==
    IF i > Len(m) THEN FallThrough
    ELSE LET p == m[i][1]
             v == m[i][2]
         IN  IF p \notin legalProperties
             THEN Returned(protest(Msg("Illegal property", p, NoVal)))
             ELSE IF v.t # "str"
             THEN Raised(<<>>, Broke("AttributeError", "startswith"))
             ELSE IF ~startswith(v.s, "?")
             THEN Returned(protest(Msg("must be a variable", "", v)))
             ELSE IF Len(v.s) < 2
             THEN Returned(protest(Msg("Need an named variable for", "", v)))
             ELSE check_properties(m, i + 1)

\* validate with the loop over the properties run before the test of the key
validate_late(rq, key) ==
    IF ~rq.json THEN Raised(<<>>, Broke("ValueError", ""))
    ELSE LET out == check_properties(Del(rq.m, key), 1) IN
         IF ~out.go THEN out
         ELSE IF ~Has(rq.m, key)
         THEN Returned(protest(Msg("Need", key, NoVal)))
         ELSE FallThrough

\* stockfs.py:85-106 with key = "symbol"; imdbfs.py:74-95 with key = "titleQuery"
validate(rq, key) ==
    IF ~rq.json THEN Raised(<<>>, Broke("ValueError", ""))
    ELSE IF ~Has(rq.m, key)
    THEN Returned(protest(Msg("Need", key, NoVal)))
    ELSE check_properties(Del(rq.m, key), 1)

\* SetItem that keeps the value a key already has (bindings.setdefault)
SetItem_keep(b, k, v) == [x \in DOMAIN b \cup {k} |-> IF x \in DOMAIN b THEN b[x] ELSE v]

\* bindings[k] = v on a dict held as a function
SetItem(b, k, v) == [x \in DOMAIN b \cup {k} |-> IF x = k THEN v ELSE b[x]]

RECURSIVE resolve(_, _, _, _)
\* stockfs.py:113-119 (imdbfs.py:102-108 is the same loop): the print of q[p]
\* comes before the test p in q
resolve(m, q, i, bindings) ==
    IF i > Len(m)
    THEN [bindings |-> bindings, satisfied |-> TRUE, exc |-> NoMsg]
    ELSE LET p == m[i][1] IN
         IF p \notin DOMAIN q
         THEN [bindings |-> bindings, satisfied |-> TRUE,
               exc |-> Broke("KeyError", p)]
         ELSE IF p \in DOMAIN q
         THEN resolve(m, q, i + 1, SetItem(bindings, m[i][2].s, q[p]))
         ELSE [bindings |-> bindings, satisfied |-> FALSE, exc |-> NoMsg]

\* json.dumps(bindings)
dumps_dict(b) == [x \in DOMAIN b |-> dumps(b[x])]

\* stockfs.py:111-131 (imdbfs.py:100-120): bindings, the envelope, the response
respond(m, q) ==
    LET res == resolve(m, q, 1, <<>>) IN
    IF res.exc # NoMsg THEN Raised(<<>>, res.exc)
    ELSE Returned(success_headers
                  \o <<write(IF res.satisfied
                             THEN FoundEnvelope(<<dumps_dict(res.bindings)>>)
                             ELSE FoundEnvelope(<<>>))>>)

----------------------------------------------------------------------------
(* weatherfs.py *)

\* weatherfs.py:83-95: the checks of temp
check_temp(m) ==
    IF ~Has(m, "temp")
    THEN Returned(protest(Msg("Need temp (variable).", "temp", NoVal)))
    ELSE LET tempVar == str(Get(m, "temp")) IN
         IF ~startswith(tempVar, "?")
         THEN Returned(protest(Msg("Temp must be a variable.", "temp", NoVal)))
         ELSE IF Len(tempVar) < 2
         THEN Returned(protest(Msg("Need an named variable for temp.", "temp", NoVal)))
         ELSE FallThrough

\* weatherfs.py:70-95: everything in the try block before getWeather
validate_weather(rq) ==
    IF ~rq.json THEN Raised(<<>>, Broke("ValueError", ""))
    ELSE IF ~Has(rq.m, "locale")
    THEN Returned(protest(Msg("Need locale (constant: string).", "locale", NoVal)))
    ELSE check_temp(rq.m)

\* weatherfs.py:98-106: temp = w['main']['temp'], the headers, the formatted body
respond_weather(m, w) ==
    IF "main" \notin DOMAIN w THEN Raised(<<>>, Broke("KeyError", "main"))
    ELSE IF "temp" \notin DOMAIN w["main"] THEN Raised(<<>>, Broke("KeyError", "temp"))
    ELSE LET temp == w["main"]["temp"]
             tempVar == str(Get(m, "temp"))
         IN  IF FormatF(temp) = NoVal
             THEN Raised(success_headers, Broke("TypeError", "%f"))
             ELSE Returned(success_headers
                           \o <<write(FoundEnvelope(<<(tempVar :> FormatF(temp))>>))>>)

----------------------------------------------------------------------------
(* The requests a client may send, and what the backends may return *)

\* values a caller may put at a variable position
PropVals ==
    {PyStr(<<"?", "a">>), PyStr(<<"?", "b">>), PyStr(<<"?">>), PyStr(<<"b">>),
     PyInt(1)}

\* operands of add
Operands == {PyInt(i) : i \in 0..MaxInt} \cup {PyStr(<<"a">>)}

OptEntry(k, Vs) == {<<>>} \cup {<< <<k, v>> >> : v \in Vs}

\* dicts over the keys K with at most MaxProps entries, in every iteration order
PropSeqs(K) ==
    UNION {{s \in [1..n -> K \X PropVals] :
               \A i, j \in 1..n : i < j => s[i][1] # s[j][1]} : n \in 0..MaxProps}

\* two legal properties and one key outside legalProperties, per service
StockKeys == {"bid", "ask", "volume"}
ImdbKeys == {"Title", "Runtime", "Budget"}

Patterns ==
    [add |-> {x \o y \o z \o w :
                 x \in OptEntry("x", Operands), y \in OptEntry("y", Operands),
                 z \in OptEntry("z", PropVals), w \in OptEntry("w", {PyInt(0)})},
     weather |-> {l \o t \o h :
                 l \in OptEntry("locale", {PyStr(<<"A">>)}),
                 t \in OptEntry("temp", PropVals),
                 h \in OptEntry("humidity", {PyStr(<<"?", "h">>)})},
     stock |-> {c \o s : c \in OptEntry("symbol", {PyStr(<<"C">>)}),
                         s \in PropSeqs(StockKeys)},
     imdb |-> {c \o s : c \in OptEntry("titleQuery", {PyStr(<<"t">>)}),
                        s \in PropSeqs(ImdbKeys)}]

Request(method, path, json, m) ==
    [method |-> method, path |-> path, json |-> json, m |-> m]
NoReq == Request("", "", FALSE, <<>>)

\* a GET, a POST to another path, a POST whose body is no JSON, and the patterns
Gets == {Request("GET", "/facts/search", FALSE, <<>>)}
Posts(svc) ==
    {Request("POST", "/", FALSE, <<>>), Request("POST", "/facts/search", FALSE, <<>>)}
    \cup {Request("POST", "/facts/search", TRUE, m) : m \in Patterns[svc]}

\* getQuote returns all five keys, as floats (stockfs.py:67-73)
Quotes ==
    {[p \in StockLegalProperties |->
        IF p = "bid" THEN PyFloat(b) ELSE IF p = "ask" THEN PyFloat(15) ELSE PyFloat(0)]
     : b \in {10, 15}}

\* getMovie returns whatever object the service answers (imdbfs.py:60-62)
Movies ==
    {("Title" :> PyStr(<<"G">>)) @@ ("Runtime" :> PyStr(<<"1">>)) @@ ("Response" :> PyStr(<<"T">>)),
     ("Title" :> PyStr(<<"G">>)) @@ ("Response" :> PyStr(<<"T">>)),
     ("Response" :> PyStr(<<"F">>)) @@ ("Error" :> PyStr(<<"n">>))}

\* getWeather returns whatever object the service answers (weatherfs.py:55-58)
Weathers ==
    {("main" :> ("temp" :> PyFloat(115))),
     ("main" :> ("temp" :> PyInt(11))),
     ("main" :> ("temp" :> PyStr(<<"h">>))),
     ("main" :> ("pressure" :> PyInt(1))),
     ("cod" :> PyStr(<<"4">>))}

NoData == ("none" :> NoVal)
NoLoc == <<>>
NoExchange == [req |-> NoReq, data |-> NoData, wire |-> <<>>]

----------------------------------------------------------------------------
(* The server *)

Services == {"add", "weather", "stock", "imdb"}

\* the module-level legalProperties of the program (stockfs.py:28, imdbfs.py:28-31)
LegalPropertiesOf(svc) ==
    CASE svc = "stock" -> StockLegalProperties
      [] svc = "imdb" -> ImdbLegalProperties
      [] OTHER -> {}

Init ==
    /\ service \in Services
    /\ legalProperties = LegalPropertiesOf(service)
    /\ pc = [r \in Requests |-> "idle"]
    /\ req = [r \in Requests |-> NoReq]
    /\ loc = [r \in Requests |-> NoLoc]
    /\ calls = [r \in Requests |-> 0]
    /\ data = [r \in Requests |-> NoData]
    /\ wire = [r \in Requests |-> <<>>]
    /\ answered = NoExchange

\* a client connects; connections are numbered in the order they arrive
Connect(r) ==
    /\ pc[r] = "idle"
    /\ \A x \in Requests : x < r => pc[x] # "idle"
    /\ pc' = [pc EXCEPT ![r] = "queued"]
    /\ UNCHANGED <<service, legalProperties, req, loc, calls, data, wire, answered>>

\* HTTPServer.serve_forever takes one connection at a time, in arrival order,
\* and runs its handler to the end before it takes the next
Accepts(r) ==
    /\ pc[r] = "queued"
    /\ \A x \in Requests : pc[x] \notin {"fetching", "responded"}
    /\ \A x \in Requests : x < r => pc[x] # "queued"

\* the handler finished: it wrote w
Responds(r, rq, w) ==
    /\ pc' = [pc EXCEPT ![r] = "responded"]
    /\ req' = [req EXCEPT ![r] = rq]
    /\ wire' = [wire EXCEPT ![r] = w]

\* the handler is inside its backend call
Fetches(r, rq, m) ==
    /\ pc' = [pc EXCEPT ![r] = "fetching"]
    /\ req' = [req EXCEPT ![r] = rq]
    /\ loc' = [loc EXCEPT ![r] = m]
    /\ calls' = [calls EXCEPT ![r] = @ + 1]
    /\ UNCHANGED <<service, data, wire, answered>>

do_GET(r) ==
    /\ Accepts(r)
    /\ \E rq \in Gets :
          Responds(r, rq,
                   IF service = "add"
                   THEN protest_add(Msg("You should POST with json.", "", NoVal))
                   ELSE protest(Msg("You should POST with json.", "", NoVal)))
    /\ UNCHANGED <<service, legalProperties, loc, calls, data, answered>>

\* add.py:43-92; x + y is local, so the whole handler is one step
do_POST_add(r) ==
    /\ service = "add"
    /\ Accepts(r)
    /\ \E rq \in Posts("add") :
          IF rq.path # "/facts/search"
          THEN /\ Responds(r, rq, protest_add(Msg("Only can do /facts/search.", "", NoVal)))
               /\ UNCHANGED <<calls, data>>
          ELSE LET out == validate_add(rq) IN
               IF ~out.go
               THEN /\ Responds(r, rq, except_add(out))
                    /\ UNCHANGED <<calls, data>>
               ELSE /\ Responds(r, rq, except_add(respond_add(rq.m)))
                    /\ calls' = [calls EXCEPT ![r] = @ + 1]
                    /\ data' = [data EXCEPT ![r] =
                                   ("got" :> plus(Get(rq.m, "x"), Get(rq.m, "y")))]
    /\ UNCHANGED <<service, legalProperties, loc, answered>>

\* weatherfs.py:64-97: up to the call of getWeather
do_POST_weather(r) ==
    /\ service = "weather"
    /\ Accepts(r)
    /\ \E rq \in Posts("weather") :
          IF rq.path # "/facts/search"
          THEN /\ Responds(r, rq, protest(Msg("Only can do /facts/search.", "", NoVal)))
               /\ UNCHANGED <<service, legalProperties, loc, calls, data, answered>>
          ELSE LET out == validate_weather(rq) IN
               IF ~out.go
               THEN /\ Responds(r, rq, except_Exception(out))
                    /\ UNCHANGED <<service, legalProperties, loc, calls, data, answered>>
               ELSE /\ Fetches(r, rq, rq.m)
                    /\ UNCHANGED legalProperties

\* do_POST_stock deleting what it consumed from the module-level set as well
do_POST_stock_shared(r) ==
    /\ service = "stock"
    /\ Accepts(r)
    /\ \E rq \in Posts("stock") :
          IF rq.path # "/facts/search"
          THEN /\ Responds(r, rq, protest(Msg("Only can do /facts/search.", "", NoVal)))
               /\ UNCHANGED <<service, legalProperties, loc, calls, data, answered>>
          ELSE LET out == validate(rq, "symbol") IN
               IF ~out.go
               THEN /\ Responds(r, rq, except_Exception(out))
                    /\ UNCHANGED <<service, legalProperties, loc, calls, data, answered>>
               ELSE /\ Fetches(r, rq, Del(rq.m, "symbol"))
                    /\ legalProperties' = legalProperties \ Keys(rq.m)

\* stockfs.py:79-108: up to the call of getQuote; del m["symbol"] acts on the
\* handler's own dict
do_POST_stock(r) ==
    /\ service = "stock"
    /\ Accepts(r)
    /\ \E rq \in Posts("stock") :
          IF rq.path # "/facts/search"
          THEN /\ Responds(r, rq, protest(Msg("Only can do /facts/search.", "", NoVal)))
               /\ UNCHANGED <<service, legalProperties, loc, calls, data, answered>>
          ELSE LET out == validate(rq, "symbol") IN
               IF ~out.go
               THEN /\ Responds(r, rq, except_Exception(out))
                    /\ UNCHANGED <<service, legalProperties, loc, calls, data, answered>>
               ELSE /\ Fetches(r, rq, Del(rq.m, "symbol"))
                    /\ UNCHANGED legalProperties

\* imdbfs.py:68-97: up to the call of getMovie
do_POST_imdb(r) ==
    /\ service = "imdb"
    /\ Accepts(r)
    /\ \E rq \in Posts("imdb") :
          IF rq.path # "/facts/search"
          THEN /\ Responds(r, rq, protest(Msg("Only can do /facts/search.", "", NoVal)))
               /\ UNCHANGED <<service, legalProperties, loc, calls, data, answered>>
          ELSE LET out == validate(rq, "titleQuery") IN
               IF ~out.go
               THEN /\ Responds(r, rq, except_Exception(out))
                    /\ UNCHANGED <<service, legalProperties, loc, calls, data, answered>>
               ELSE /\ Fetches(r, rq, Del(rq.m, "titleQuery"))
                    /\ UNCHANGED legalProperties

\* the backend call returned `d`; the handler runs to its end
Returns(r, d, w) ==
    /\ pc[r] = "fetching"
    /\ pc' = [pc EXCEPT ![r] = "responded"]
    /\ data' = [data EXCEPT ![r] = d]
    /\ wire' = [wire EXCEPT ![r] = w]
    /\ UNCHANGED <<service, legalProperties, req, loc, calls, answered>>

\* stockfs.py:58-73 returns q, then stockfs.py:109-131
getQuote(r) ==
    /\ service = "stock"
    /\ \E q \in Quotes : Returns(r, q, except_Exception(respond(loc[r], q)))

\* imdbfs.py:56-62 returns o, then imdbfs.py:98-120
getMovie(r) ==
    /\ service = "imdb"
    /\ \E o \in Movies : Returns(r, o, except_Exception(respond(loc[r], o)))

\* weatherfs.py:50-58 returns w, then weatherfs.py:98-106
getWeather(r) ==
    /\ service = "weather"
    /\ \E w \in Weathers : Returns(r, w, except_Exception(respond_weather(loc[r], w)))

\* urlopen, json.load or float raised inside the backend call
backend_raises(r) ==
    /\ service # "add"
    /\ Returns(r, NoData, except_Exception(Raised(<<>>, Broke("URLError", ""))))

\* the server closes the connection and goes back to accept; the caller keeps
\* what it was answered from backend data
shutdown_request(r) ==
    /\ pc[r] = "responded"
    /\ pc' = [pc EXCEPT ![r] = "closed"]
    /\ answered' = IF data[r] # NoData
                   THEN [req |-> req[r], data |-> data[r], wire |-> wire[r]]
                   ELSE answered
    /\ req' = [req EXCEPT ![r] = NoReq]
    /\ loc' = [loc EXCEPT ![r] = NoLoc]
    /\ calls' = [calls EXCEPT ![r] = 0]
    /\ data' = [data EXCEPT ![r] = NoData]
    /\ wire' = [wire EXCEPT ![r] = <<>>]
    /\ UNCHANGED <<service, legalProperties>>

Next ==
    \E r \in Requests :
        \/ Connect(r)
        \/ do_GET(r)
        \/ do_POST_add(r)
        \/ do_POST_weather(r)
        \/ do_POST_stock(r)
        \/ do_POST_imdb(r)
        \/ getQuote(r)
        \/ getMovie(r)
        \/ getWeather(r)
        \/ backend_raises(r)
        \/ shutdown_request(r)

Spec == Init /\ [][Next]_vars

----------------------------------------------------------------------------
(* Vocabulary of the properties *)

RequiredKeys ==
    [add |-> {"x", "y"}, weather |-> {"locale"}, stock |-> {"symbol"},
     imdb |-> {"titleQuery"}]

BindableKeys ==
    [add |-> {"z"}, weather |-> {"temp"}, stock |-> StockLegalProperties,
     imdb |-> ImdbLegalProperties]

\* the entries of m at a variable position
PropIndexes(m) == {i \in 1..Len(m) : m[i][1] \in BindableKeys[service]}

WellFormedVariable(v) == v.t = "str" /\ Len(v.s) >= 2 /\ v.s[1] = "?"

\* request r is a POST to /facts/search whose body is a JSON object
PostedPattern(r) ==
    req[r].method = "POST" /\ req[r].path = "/facts/search" /\ req[r].json

\* the pattern of request r passes validation as the specification words it
ValidPattern(r) ==
    /\ PostedPattern(r)
    /\ RequiredKeys[service] \subseteq Keys(req[r].m)
    /\ Keys(req[r].m) \subseteq RequiredKeys[service] \cup BindableKeys[service]
    /\ \A i \in PropIndexes(req[r].m) : WellFormedVariable(req[r].m[i][2])

\* request r was answered from a backend record
Fetched(r) == pc[r] = "responded" /\ data[r] # NoData

Count(w, ev) == Len(SelectSeq(w, LAMBDA e : e.ev = ev))

\* one header block with the given content type, then one body of the given kinds
OneResponse(w, ctype, kinds) ==
    /\ Len(w) = 4
    /\ SubSeq(w, 1, 3) = <<send_response, send_header(ctype), end_headers>>
    /\ w[4].ev = "write"
    /\ w[4].body.kind \in kinds

ErrorResponse(w) == OneResponse(w, "text/plain", {"Error", "text"})
FoundResponse(w) == OneResponse(w, "application/json", {"Found"})

----------------------------------------------------------------------------
\* C1: in the stock and movie services, a valid pattern whose backend fetch
\* succeeded and one of whose requested properties is missing from the backend
\* record is answered with the Found envelope with an empty Bindingss array.
C1_EmptyBindingss ==
    \A r \in Requests :
        ( /\ service \in {"stock", "imdb"}
          /\ ValidPattern(r)
          /\ Fetched(r)
          /\ \E i \in PropIndexes(req[r].m) : req[r].m[i][1] \notin DOMAIN data[r] )
        => wire[r] = success_headers \o <<write(FoundEnvelope(<<>>))>>

\* C1 in the case the code reaches: the missing property raises KeyError at the
\* print of the loop, and the answer is the protest of that exception.
C1_Reached ==
    \E r \in Requests :
        /\ service = "imdb" /\ ValidPattern(r) /\ Fetched(r)
        /\ \E i \in PropIndexes(req[r].m) : req[r].m[i][1] \notin DOMAIN data[r]
        /\ ErrorResponse(wire[r])

----------------------------------------------------------------------------
\* the valid patterns of the stock and movie services all of whose requested
\* properties are in the backend record
AllResolved(r) ==
    /\ service \in {"stock", "imdb"}
    /\ ValidPattern(r)
    /\ Fetched(r)
    /\ \A i \in PropIndexes(req[r].m) : req[r].m[i][1] \in DOMAIN data[r]

VariableStrings(m) == {m[i][2].s : i \in PropIndexes(m)}

\* C2 (as claimed): when every requested property is in the backend record, the
\* response is a Found envelope with exactly one binding object, whose keys are
\* the caller's variable strings, and which maps the variable string of every
\* requested property to the backend value of that property.
C2_EachPropertyBound ==
    \A r \in Requests :
        AllResolved(r) =>
            /\ FoundResponse(wire[r])
            /\ Len(wire[r][4].body.bindingss) = 1
            /\ LET b == wire[r][4].body.bindingss[1]
                   m == req[r].m
               IN  /\ DOMAIN b = VariableStrings(m)
                   /\ \A i \in PropIndexes(m) : b[m[i][2].s] = dumps(data[r][m[i][1]])

\* the last entry of m, in iteration order, whose variable string is v
LastWith(m, v) ==
    CHOOSE i \in PropIndexes(m) :
        /\ m[i][2].s = v
        /\ \A j \in PropIndexes(m) : m[j][2].s = v => j <= i

\* C2 (amended): as C2, but a variable string maps to the backend value of the
\* last property, in the pattern's iteration order, requested with that string;
\* with pairwise distinct variable strings that is the property it was given for.
C2_LastPropertyBound ==
    \A r \in Requests :
        AllResolved(r) =>
            /\ FoundResponse(wire[r])
            /\ Len(wire[r][4].body.bindingss) = 1
            /\ LET b == wire[r][4].body.bindingss[1]
                   m == req[r].m
               IN  /\ DOMAIN b = VariableStrings(m)
                   /\ \A v \in VariableStrings(m) :
                          b[v] = dumps(data[r][m[LastWith(m, v)][1]])

\* two properties with one variable string and different backend values, answered
C2_Reached ==
    \E r \in Requests :
        /\ AllResolved(r)
        /\ \E i, j \in PropIndexes(req[r].m) :
              /\ i < j
              /\ req[r].m[i][2] = req[r].m[j][2]
              /\ data[r][req[r].m[i][1]] # data[r][req[r].m[j][1]]
        /\ FoundResponse(wire[r])

----------------------------------------------------------------------------
MissingConstants(r) == RequiredKeys[service] \ Keys(req[r].m)

\* C3: a pattern that lacks a required constant key is answered with an error
\* response whose message names a missing key, and the backend is not invoked
\* at any point of the request.
C3_MissingConstant ==
    \A r \in Requests :
        (PostedPattern(r) /\ MissingConstants(r) # {}) =>
            /\ pc[r] # "fetching"
            /\ calls[r] = 0
            /\ pc[r] = "responded" =>
                  /\ ErrorResponse(wire[r])
                  /\ wire[r][4].body.msg.key \in MissingConstants(r)

\* a pattern with a missing constant and another defect was answered
C3_Reached ==
    \E r \in Requests :
        /\ pc[r] = "responded" /\ PostedPattern(r)
        /\ MissingConstants(r) # {}
        /\ Keys(req[r].m) \ BindableKeys[service] # {}
        /\ ErrorResponse(wire[r])

----------------------------------------------------------------------------
IllegalKeys(r) == Keys(req[r].m) \ (RequiredKeys[service] \cup BindableKeys[service])

\* C4: a pattern with a key that is neither a required constant key nor a legal
\* bindable property is answered with an error response naming the illegal key,
\* before any backend access, and never with a Found envelope.
C4_IllegalKeyRejected ==
    \A r \in Requests :
        (PostedPattern(r) /\ IllegalKeys(r) # {}) =>
            /\ pc[r] # "fetching"
            /\ calls[r] = 0
            /\ pc[r] = "responded" =>
                  /\ ErrorResponse(wire[r])
                  /\ wire[r][4].body.msg.key \in IllegalKeys(r)

----------------------------------------------------------------------------
\* C5: a pattern in which the value at a variable position does not start with
\* "?", is the bare "?", or is no text is answered with an error response, and
\* the backend is never invoked during the request.
C5_NotAVariable ==
    \A r \in Requests :
        ( /\ PostedPattern(r)
          /\ \E i \in PropIndexes(req[r].m) : ~WellFormedVariable(req[r].m[i][2]) )
        => /\ pc[r] # "fetching"
           /\ calls[r] = 0
           /\ pc[r] = "responded" => ErrorResponse(wire[r])

\* the bare sigil at a variable position, with all constants present, was answered
C5_Reached ==
    \E r \in Requests :
        /\ pc[r] = "responded" /\ PostedPattern(r)
        /\ MissingConstants(r) = {} /\ IllegalKeys(r) = {}
        /\ \E i \in PropIndexes(req[r].m) : req[r].m[i][2] = PyStr(<<"?">>)
        /\ ErrorResponse(wire[r])

----------------------------------------------------------------------------
\* C6: every request ends in exactly one response: the status line and the
\* headers are sent once and one body is written.
C6_OneResponse ==
    \A r \in Requests :
        pc[r] = "responded" =>
            /\ Count(wire[r], "send_response") = 1
            /\ Count(wire[r], "end_headers") = 1
            /\ Count(wire[r], "write") = 1

----------------------------------------------------------------------------
\* request r failed: not a POST of a valid pattern answered from backend data
FailedRequest(r) == ~ValidPattern(r) \/ data[r] = NoData

\* C7: every body written is a JSON object with the single key Found or Error,
\* and the body of a failed request is the Error envelope.
C7_ErrorEnvelope ==
    \A r \in Requests :
        pc[r] = "responded" =>
            \A i \in 1..Len(wire[r]) :
                wire[r][i].ev = "write" =>
                    /\ wire[r][i].body.kind \in {"Found", "Error"}
                    /\ FailedRequest(r) => wire[r][i].body.kind = "Error"

----------------------------------------------------------------------------
\* C8: add answers integer constants x and y and a well-formed variable z with
\* the Found envelope whose one binding maps z to the integer x + y, written as
\* in the usage comment of add.py ({"?z":3}).
C8_AddBindsSum ==
    \A r \in Requests :
        ( /\ service = "add" /\ pc[r] = "responded" /\ ValidPattern(r)
          /\ Has(req[r].m, "z")
          /\ Get(req[r].m, "x").t = "int" /\ Get(req[r].m, "y").t = "int" )
        => wire[r] = success_headers
                     \o <<write(FoundEnvelope(
                            <<(Get(req[r].m, "z").s
                               :> JNum(Get(req[r].m, "x").n + Get(req[r].m, "y").n, <<>>))>>))>>

----------------------------------------------------------------------------
\* the handler of the service can start on request b
Handles(b) == do_GET(b) \/ do_POST_weather(b) \/ do_POST_stock(b) \/ do_POST_imdb(b)

\* C9: while request a is blocked in its backend call, the request b that is
\* next in the queue can be taken up by its handler.
C9_NoStall ==
    \A a, b \in Requests :
        ( /\ pc[a] = "fetching"
          /\ pc[b] = "queued"
          /\ \A x \in Requests : x < b => pc[x] # "queued" )
        => ENABLED Handles(b)

----------------------------------------------------------------------------
\* C10: no request changes the module-level state, and a request equal to one
\* answered before reaches the backend again and, on the same backend data,
\* gets the same response.
C10_Stateless ==
    /\ legalProperties = LegalPropertiesOf(service)
    /\ \A r \in Requests :
          (pc[r] = "responded" /\ req[r] = answered.req) =>
              /\ calls[r] = 1
              /\ data[r] = answered.data => wire[r] = answered.wire

\* the same pattern, with a property besides the constant, answered twice from
\* the same backend data
C10_Reached ==
    \E r \in Requests :
        /\ pc[r] = "responded" /\ req[r] = answered.req
        /\ data[r] = answered.data
        /\ Len(req[r].m) >= 2
        /\ FoundResponse(wire[r])

----------------------------------------------------------------------------
\* C11: in the stock and movie services a pattern that holds only the required
\* constant key (no property from legalProperties) is not accepted: it triggers
\* no backend call and is not answered with a Found envelope.
C11_NeedsAProperty ==
    \A r \in Requests :
        ( /\ service \in {"stock", "imdb"}
          /\ PostedPattern(r)
          /\ Keys(req[r].m) = RequiredKeys[service] )
        => /\ pc[r] # "fetching"
           /\ calls[r] = 0
           /\ pc[r] = "responded" => ~FoundResponse(wire[r])

====
